---------------------------- MODULE Spec2Model ----------------------------
(***************************************************************************)
(* Model of captainslog: the Whisper API proxy (internal/proxy/proxy.go),   *)
(* the rate limiter, the folder watcher and the server of main.go.         *)
(*                                                                         *)
(* Byte strings are sequences of tokens.  A token stands for a run of      *)
(* bytes that the code's searches can only match as a whole:               *)
(*   "CRLF"   \r\n                                                         *)
(*   "DELIM1" "DELIM2"  --<boundary>  "END"  the closing "--"              *)
(*   "CD"     Content-Disposition: form-data;                              *)
(*   "NRF"    name="response_format"                                       *)
(*   "Nfile"  name="file"                                                  *)
(*   "FILE"   the bytes 'file' that turn name="x" into filename="x"        *)
(*   "FNwav"  filename="test.wav"                                          *)
(*   "CT"     Content-Type: application/octet-stream                       *)
(*   "json" "text" "srt" "vtt" "verbose_json"   field values               *)
(*   "a"      any other payload bytes                                      *)
(* and for subtitle text: "LF" "CR" "SP" "IDX" "T0" "T1" "ARROW" "w".      *)
(*                                                                         *)
(* Specifications:                                                         *)
(*   Spec        one request through Transcribe or Translate               *)
(*   SpecField   replaceMIMEField and extractMultipartField on their own   *)
(*   SpecSRT     parseSRT on its own                                       *)
(*   SpecShared  two handler calls interleaved on one Proxy                *)
(*   SpecHealth  Health on its own                                         *)
(*   SpecLimiter the rate limiter: Allow and Cleanup over time             *)
(*   SpecWatcher the folder watcher's loop, its events, ticker and Stop    *)
(*   SpecApp     the server of cmd/captainslog/main.go: settings, routes,  *)
(*               whisperProxy and settings.json                            *)
(***************************************************************************)
EXTENDS Integers, Sequences, FiniteSets, TLC

\* ------------------------------------------------------------------ bounds
MaxAudio == 1          \* longest audio payload, in tokens
MaxBlocks == 2         \* most blocks in a subtitle document the backend sends
MaxFieldAudio == 3     \* longest audio payload given to the two field helpers
MaxDocBlocks == 3      \* most blocks in a document given to parseSRT
MaxHealthCalls == 3    \* Health calls in a row
MaxRequests == 3       \* requests the server is given in one run
MaxTime == 5           \* the limiter's and the watcher's clocks run from 0
                       \* to MaxTime

\* ------------------------------------------------------- string primitives
\* s[i:]  (1-based i)
From(s, i) == SubSeq(s, i, Len(s))

\* bytes.HasPrefix(s[i:], p)
HasPrefixAt(s, p, i) == /\ i >= 1
                        /\ i + Len(p) - 1 <= Len(s)
                        /\ SubSeq(s, i, i + Len(p) - 1) = p

\* strings.Index(s[i:], p): position (1-based, in s) of the first match at
\* or after i; 0 when there is none (Go's -1).
IndexFrom(s, p, i) ==
  LET hits == {k \in i..Len(s) : HasPrefixAt(s, p, k)}
  IN  IF hits = {} THEN 0 ELSE CHOOSE k \in hits : \A j \in hits : k <= j

Index(s, p) == IndexFrom(s, p, 1)

IsSpace(t) == t \in {"CRLF", "LF", "CR", "SP"}

\* strings.TrimSpace
RECURSIVE TrimLeft(_)
TrimLeft(s) == IF s # <<>> /\ IsSpace(Head(s)) THEN TrimLeft(Tail(s)) ELSE s

RECURSIVE TrimRight(_)
TrimRight(s) == IF s # <<>> /\ IsSpace(s[Len(s)])
                THEN TrimRight(SubSeq(s, 1, Len(s) - 1)) ELSE s

TrimSpace(s) == TrimRight(TrimLeft(s))

\* strings.Split(s, sep) for a non-empty separator: leftmost, non-overlapping
RECURSIVE Split(_, _)
Split(s, sep) ==
  LET k == Index(s, sep)
  IN  IF k = 0 THEN <<s>>
      ELSE <<SubSeq(s, 1, k - 1)>> \o Split(From(s, k + Len(sep)), sep)

\* strings.Join(lines, sep)
RECURSIVE Join(_, _)
Join(ss, sep) == IF ss = <<>> THEN <<>>
                 ELSE IF Len(ss) = 1 THEN ss[1]
                 ELSE ss[1] \o sep \o Join(Tail(ss), sep)

\* all sequences over S of length at most n
SeqsUpTo(S, n) == UNION {[1..k -> S] : k \in 0..n}


\* ---------------------------------------------------- multipart/form-data
Formats == {"json", "text", "srt", "vtt"}      \* values a client may send
AudioTokens == {"a", "NRF", "CRLF"}            \* what an audio payload may hold
FileNames == {"FNwav", "FILENRF"}              \* test.wav, response_format
Boundaries == {"B1", "B2"}

\* mime/multipart.Writer.FormDataContentType
FormDataContentType(b) == <<"multipart/form-data; boundary=", b>>

\* the delimiter line "--" + boundary
Delim(b) == IF b = "B1" THEN "DELIM1" ELSE "DELIM2"

\* filename="..." as bytes: filename="response_format" ends with the bytes
\* name="response_format"
FileNameBytes(fn) == IF fn = "FILENRF" THEN <<"FILE", "NRF">> ELSE <<fn>>

\* multipart.Writer.CreateFormFile("file", fn) followed by the payload
FilePart(b, fn, audio) ==
  <<Delim(b), "CRLF", "CD", "Nfile">> \o FileNameBytes(fn)
    \o <<"CRLF", "CT", "CRLF", "CRLF">> \o audio \o <<"CRLF">>

\* multipart.Writer.WriteField("response_format", v)
FieldPart(b, v) ==
  <<Delim(b), "CRLF", "CD", "NRF", "CRLF", "CRLF", v, "CRLF">>

\* multipart.Writer.Close
Closing(b) == <<Delim(b), "END", "CRLF">>

\* The body a client builds: the file part and, unless fmt = "none", the
\* response_format field, before or after the file.
buildMultipartBody(b, fn, audio, fmt, fieldFirst) ==
  IF fmt = "none" THEN FilePart(b, fn, audio) \o Closing(b)
  ELSE IF fieldFirst
       THEN FieldPart(b, fmt) \o FilePart(b, fn, audio) \o Closing(b)
       ELSE FilePart(b, fn, audio) \o FieldPart(b, fmt) \o Closing(b)

\* mime.ParseMediaType(contentType) and params["boundary"]; "" when the type
\* does not parse or carries no boundary
BoundaryParam(contentType) ==
  IF Len(contentType) = 2 /\ contentType[1] = "multipart/form-data; boundary="
  THEN contentType[2] ELSE ""

\* multipart.Part.FormName: the name parameter of a form-data disposition
FormName(hdr) ==
  IF hdr = <<>> \/ Head(hdr) # "CD" THEN ""
  ELSE IF \E i \in 2..Len(hdr) : hdr[i] = "NRF" /\ hdr[i - 1] # "FILE"
       THEN "response_format"
  ELSE IF \E i \in 2..Len(hdr) : hdr[i] = "Nfile" THEN "file"
  ELSE ""

\* multipart.Part.FileName: the filename parameter
FileName(hdr) ==
  IF hdr = <<>> \/ Head(hdr) # "CD" THEN ""
  ELSE IF \E i \in 3..Len(hdr) : hdr[i] = "NRF" /\ hdr[i - 1] = "FILE"
       THEN "response_format"
  ELSE IF \E i \in 2..Len(hdr) : hdr[i] = "FNwav" THEN "test.wav"
  ELSE ""

\* multipart.Reader.NextPart, repeated until it fails: the parts of body as
\* <<header bytes, payload bytes>> records.  pos is where a delimiter line is
\* expected.
RECURSIVE Parts(_, _, _)
Parts(body, d, pos) ==
  IF ~HasPrefixAt(body, <<d, "CRLF">>, pos) THEN <<>>       \* closing line or EOF
  ELSE LET hs   == pos + 2
           hEnd == IndexFrom(body, <<"CRLF", "CRLF">>, hs)
       IN  IF hEnd = 0 THEN <<>>
           ELSE LET ds   == hEnd + 2
                    dEnd == IndexFrom(body, <<"CRLF", d>>, ds)
                IN  IF dEnd = 0 THEN <<>>
                    ELSE <<[hdr  |-> SubSeq(body, hs, hEnd - 1),
                            data |-> SubSeq(body, ds, dEnd - 1)]>>
                         \o Parts(body, d, dEnd + 1)

\* multipart.NewReader(body, boundary): the preamble before the first
\* delimiter line is skipped
NewReader(body, boundary) ==
  LET d == Delim(boundary)
      k == Index(body, <<d>>)
  IN  IF k = 0 THEN <<>> ELSE Parts(body, d, k)

\* extractMultipartField: the value of the first non-file part named
\* fieldName, trimmed; <<>> (the empty string) when there is none.
RECURSIVE FirstField(_, _)
FirstField(parts, fieldName) ==
  IF parts = <<>> THEN <<>>
  ELSE LET part == Head(parts)
           name == FormName(part.hdr)
       IN  IF name = "" \/ FileName(part.hdr) # ""
             THEN FirstField(Tail(parts), fieldName)
           ELSE IF name = fieldName THEN TrimSpace(part.data)
           ELSE FirstField(Tail(parts), fieldName)

extractMultipartField(body, contentType, fieldName) ==
  LET boundary == BoundaryParam(contentType)
  IN  IF boundary = "" THEN <<>>
      ELSE FirstField(NewReader(body, boundary), fieldName)

\* "name=\"" + field + "\""
fieldPattern(field) == IF field = "response_format" THEN <<"NRF">>
                       ELSE <<"Nfile">>

\* replaceMIMEField: textual find-and-replace of the bytes that follow the
\* first name="field" marker, between the next blank line and the next CRLF.
replaceMIMEField(body, contentType, field, newValue) ==
  LET idx == Index(body, fieldPattern(field))
  IN  IF idx = 0 THEN body
      ELSE LET headerEnd == IndexFrom(body, <<"CRLF", "CRLF">>,
                                      idx + Len(fieldPattern(field)))
           IN  IF headerEnd = 0 THEN body
               ELSE LET valueStart == headerEnd + 2
                        valueEnd   == IndexFrom(body, <<"CRLF">>, valueStart)
                    IN  IF valueEnd = 0 THEN body
                        ELSE SubSeq(body, 1, valueStart - 1) \o newValue
                               \o From(body, valueEnd)


\* ------------------------------------------------------------ SRT parsing
\* parseSRTTime: "HH:MM:SS,mmm" to a time (in milliseconds here); anything
\* that is not a timestamp gives 0.  T0 is 00:00:00,000, T1 is 00:00:01,500.
parseSRTTime(t) == IF t = <<"T1">> THEN 1500 ELSE 0

\* one iteration of parseSRT's loop: the segment of a block, or nothing
parseBlock(block) ==
  LET lines == Split(TrimSpace(block), <<"LF">>)
  IN  IF Len(lines) < 3 THEN <<>>
      ELSE LET timeLine == lines[2]
               parts    == Split(timeLine, <<"ARROW">>)
           IN  IF Len(parts) # 2 THEN <<>>
               ELSE <<[start |-> parseSRTTime(TrimSpace(parts[1])),
                       end   |-> parseSRTTime(TrimSpace(parts[2])),
                       text  |-> Join(SubSeq(lines, 3, Len(lines)), <<"SP">>)]>>

RECURSIVE parseBlocks(_)
parseBlocks(blocks) ==
  IF blocks = <<>> THEN <<>>
  ELSE parseBlock(Head(blocks)) \o parseBlocks(Tail(blocks))

\* parseSRT
parseSRT(srt) == parseBlocks(Split(TrimSpace(srt), <<"LF", "LF">>))

\* Subtitle documents a backend may send.  A block is well-formed ("ok":
\* index line, timestamp line, one text line; "ok2": two text lines) or
\* malformed ("noarrow": no arrow on the timestamp line; "short": two lines).
WellFormedKinds == {"ok", "ok2"}
BlockKinds == WellFormedKinds \cup {"noarrow", "short"}
LineEnds == {<<"LF">>, <<"CR", "LF">>}

BlockBytes(kind, eol) ==
  CASE kind = "ok"      -> <<"IDX">> \o eol \o <<"T0", "ARROW", "T1">> \o eol
                             \o <<"w">> \o eol
    [] kind = "ok2"     -> <<"IDX">> \o eol \o <<"T0", "ARROW", "T1">> \o eol
                             \o <<"w">> \o eol \o <<"w">> \o eol
    [] kind = "noarrow" -> <<"IDX">> \o eol \o <<"T0", "T1">> \o eol
                             \o <<"w">> \o eol
    [] OTHER            -> <<"IDX">> \o eol \o <<"T0", "ARROW", "T1">> \o eol

\* blocks, each followed by a blank line except the last
RECURSIVE DocBytes(_, _)
DocBytes(kinds, eol) ==
  IF kinds = <<>> THEN <<>>
  ELSE IF Len(kinds) = 1 THEN BlockBytes(kinds[1], eol)
  ELSE BlockBytes(kinds[1], eol) \o eol \o DocBytes(Tail(kinds), eol)

WellFormedCount(kinds) == Cardinality({i \in DOMAIN kinds : kinds[i] \in WellFormedKinds})

\* ------------------------------------------------------------------- JSON
\* A response body is JSON text holding an object, the literal null or an
\* array, or it is not JSON at all (kind "text": raw holds its bytes).
NoObj == [k \in {} |-> <<>>]
ObjectBody(o) == [kind |-> "object", obj |-> o, raw |-> <<>>]
NullBody  == [kind |-> "null",  obj |-> NoObj, raw |-> <<>>]
ArrayBody == [kind |-> "array", obj |-> NoObj, raw |-> <<>>]
TextBody(bytes) == [kind |-> "text", obj |-> NoObj, raw |-> bytes]

\* the bytes of a body as parseSRT reads them: JSON text is a single line
BytesOf(body) == IF body.kind = "text" THEN body.raw ELSE <<"w">>

\* json.Unmarshal(body, &jsonResp) with jsonResp a map[string]interface{}:
\* an object fills the map, null leaves it nil without error, anything else
\* is an error.
Unmarshal(body) ==
  CASE body.kind = "object" -> [err |-> FALSE, isNil |-> FALSE, m |-> body.obj]
    [] body.kind = "null"   -> [err |-> FALSE, isNil |-> TRUE,  m |-> NoObj]
    [] OTHER                -> [err |-> TRUE,  isNil |-> TRUE,  m |-> NoObj]

\* json.Marshal(jsonResp): a nil map marshals to null
Marshal(isNil, m) == IF isNil THEN NullBody ELSE ObjectBody(m)

\* (mutant) the map is rebuilt with the one key
SetKey_DropOthers(m, key, value) == [k \in {key} |-> value]

\* jsonResp[key] = value on a non-nil map
SetKey(m, key, value) ==
  [k \in DOMAIN m \cup {key} |-> IF k = key THEN value ELSE m[k]]


\* ------------------------------------------------------------ the backend
StatusOK == 200
StatusBadRequest == 400
StatusMethodNotAllowed == 405
StatusInternalServerError == 500
StatusBadGateway == 502
StatusServiceUnavailable == 503

\* What client.Do and the reads of the response body give the proxy:
\* kind "err" is a transport failure or timeout (Do returns an error);
\* kind "http" is a response with a status and a body, whose read ends with
\* an error after the bytes in body when readErr is set.  blocks and eol
\* record how a subtitle body was written (blocks = <<>>: not subtitles).
NoAnswer == [kind |-> "none", status |-> 0, ctype |-> "", body |-> TextBody(<<>>),
             readErr |-> FALSE, isSRT |-> FALSE, blocks |-> <<>>, eol |-> <<>>]
DoError  == [NoAnswer EXCEPT !.kind = "err"]

CTypeOf(body) == IF body.kind = "text" THEN "text/plain" ELSE "application/json"

Http(status, body, readErr) ==
  [kind |-> "http", status |-> status, ctype |-> CTypeOf(body), body |-> body,
   readErr |-> readErr, isSRT |-> FALSE, blocks |-> <<>>, eol |-> <<>>]

SrtAnswer(status, kinds, eol, readErr) ==
  [Http(status, TextBody(DocBytes(kinds, eol) \o eol), readErr)
     EXCEPT !.isSRT = TRUE, !.blocks = kinds, !.eol = eol]

Seg0 == [start |-> 0, end |-> 1500, text |-> <<"w">>]
PlainObj == [text |-> "hello"]
FullObj  == [text |-> "hello", language |-> "en", segments |-> <<Seg0, Seg0, Seg0>>]
ErrObj   == [error |-> "model not loaded"]

PrimaryBodies == {ObjectBody(PlainObj), ObjectBody(FullObj), NullBody, ArrayBody,
                  TextBody(<<"w">>)}

PrimaryAnswers ==
  {DoError}
    \cup {Http(StatusOK, b, e) : b \in PrimaryBodies, e \in BOOLEAN}
    \cup {Http(StatusServiceUnavailable, b, FALSE) : b \in {ObjectBody(ErrObj), TextBody(<<"w">>)}}

Docs == SeqsUpTo(BlockKinds, MaxBlocks)

SecondaryAnswers ==
  {DoError}
    \cup {SrtAnswer(StatusOK, k, eol, e) : k \in Docs, eol \in LineEnds, e \in BOOLEAN}
    \cup {Http(StatusOK, ObjectBody(PlainObj), FALSE)}
    \cup {Http(StatusServiceUnavailable, ObjectBody(ErrObj), FALSE),
          SrtAnswer(StatusServiceUnavailable, <<"ok">>, <<"LF">>, FALSE)}


\* ------------------------------------------------------------- the state
VARIABLES
  req,        \* the inbound request (never changes once received)
  pc,         \* where the handler is: "start", "primary", "secondary",
              \* "translate" (a backend call in flight) or "done"
  calls,      \* the requests the backend has been sent, in order
  priAns,     \* what the primary call gave the handler
  secAns,     \* what the secondary (SRT) call gave the handler
  resp,       \* what the handler wrote to the client (status 0: nothing)
  writes,     \* how many times the handler wrote a response
  panicked,   \* the handler ended in a run-time panic
  cancelledAt,\* "none", or the pc at which the client disconnected and the
              \* request's context was cancelled
  inflight,   \* indices in calls of the backend calls that have not returned
  fx,         \* the helper under test and its input and result (SpecField,
              \* SpecSRT); [op |-> "none"] elsewhere
  proxy,      \* the fields of the Proxy (SpecShared)
  conc,       \* the requests being served concurrently (SpecShared)
  app,        \* the server of cmd/captainslog: settings, routes, settings.json
              \* (SpecApp); Off elsewhere
  lim,        \* the rate limiter and its clock (SpecLimiter); Off elsewhere
  wat         \* the folder watcher and its clock (SpecWatcher); Off elsewhere

vars == <<req, pc, calls, priAns, secAns, resp, writes, panicked,
          cancelledAt, inflight, fx, proxy, conc, app, lim, wat>>

\* the variables of the other specifications
aside == <<fx, proxy, conc, app, lim, wat>>

\* a part of the program that a specification does not run
Off == [on |-> FALSE]

\* strings.TrimRight(s, "/")
RECURSIVE TrimSlashes(_)
TrimSlashes(s) == IF s # <<>> /\ s[Len(s)] = "/"
                  THEN TrimSlashes(SubSeq(s, 1, Len(s) - 1)) ELSE s

\* New(backendURL, logger): the URL without its trailing slashes and the two
\* clients with their timeouts, in seconds
New(backendURL) ==
  [backendURL |-> TrimSlashes(backendURL),
   clientTimeout |-> 120, healthTimeout |-> 5]

\* the backend URL of the configuration, as the operator may write it
BackendURLs == {<<"http://backend">>, <<"http://backend", "/">>}

FxOff == [op |-> "none"]

NoResponse == [status |-> 0, ctype |-> "", body |-> TextBody(<<>>)]

\* http.Error(w, `{"error": msg}`, code)
httpError(msg, code) ==
  [status |-> code, ctype |-> "text/plain; charset=utf-8",
   body |-> ObjectBody([error |-> msg])]

\* A request: handler and method, whether the body is longer than the
\* 100 MB cap, the Content-Type header and the body bytes.  fmt, fileName,
\* audio and fieldFirst record how the client built the body.
Request(h, m, big, b, fn, audio, fmt, ff) ==
  [handler |-> h, method |-> m, oversize |-> big,
   contentType |-> FormDataContentType(b),
   body |-> buildMultipartBody(b, fn, audio, fmt, ff),
   fmt |-> fmt, fileName |-> fn, audio |-> audio, fieldFirst |-> ff]

Handlers == {"Transcribe", "Translate"}
Methods == {"POST", "GET"}
Audios == SeqsUpTo(AudioTokens, MaxAudio)

\* Readable POSTs in every layout, and for each method, boundary and size a
\* request with a plain body.
Requests ==
  {Request(h, "POST", FALSE, "B1", fn, audio, fmt, ff) :
      h \in Handlers, fn \in FileNames, audio \in Audios,
      fmt \in Formats \cup {"none"}, ff \in BOOLEAN}
    \cup {Request(h, m, big, b, "FNwav", <<"a">>, fmt, FALSE) :
            h \in Handlers, m \in Methods, big \in BOOLEAN, b \in Boundaries,
            fmt \in {"json", "text"}}

Init ==
  /\ req \in Requests
  /\ pc = "start"
  /\ calls = <<>>
  /\ priAns = NoAnswer
  /\ secAns = NoAnswer
  /\ resp = NoResponse
  /\ writes = 0
  /\ panicked = FALSE
  /\ cancelledAt = "none"
  /\ inflight = {}
  /\ fx = FxOff
  /\ proxy = New(<<"http://backend", "/">>)
  /\ conc = <<>>
  /\ app = Off /\ lim = Off /\ wat = Off

\* ---------------------------------------------------------------- helpers
TranscriptionsURL == "/v1/audio/transcriptions"
TranslationsURL == "/v1/audio/translations"

\* (mutant) the method is not checked
MethodAllowed_Any(method) == TRUE

\* r.Method != http.MethodPost
MethodAllowed(method) == method = "POST"

\* (mutant) only "text" counts as a non-JSON format
isJSON_AllButText(requestedFormat) == requestedFormat # <<"text">>

\* isJSON: the default format is json
isJSON(requestedFormat) ==
  ~(requestedFormat # <<>> /\ requestedFormat # <<"json">>)

\* (mutant) the primary request asks for verbose_json
PrimaryRequest_Upgraded(bodyBytes, contentType) ==
  [url |-> TranscriptionsURL, contentType |-> contentType, ctx |-> "request",
   body |-> replaceMIMEField(bodyBytes, contentType, "response_format",
                             <<"verbose_json">>)]

\* the primary request: the buffered body and the client's Content-Type,
\* bound to r.Context()
PrimaryRequest(bodyBytes, contentType) ==
  [url |-> TranscriptionsURL, contentType |-> contentType, ctx |-> "request",
   body |-> bodyBytes]

\* (mutant) the status alone decides: a text answer of 200 is enriched too
ForwardAsIs_StatusOnly(json, statusCode) == statusCode # StatusOK

\* (mutant) the primary status is not looked at
ForwardAsIs_IgnoreStatus(json, statusCode) == ~json

\* !isJSON || resp.StatusCode != http.StatusOK
ForwardAsIs(json, statusCode) == ~json \/ statusCode # StatusOK

\* (mutant) the SRT request is built without the request's context
SecondaryRequest_NoContext(bodyBytes, contentType) ==
  [url |-> TranscriptionsURL, contentType |-> contentType, ctx |-> "background",
   body |-> replaceMIMEField(bodyBytes, contentType, "response_format", <<"srt">>)]

\* the SRT request: the buffered body with response_format set to srt, bound
\* to r.Context()
SecondaryRequest(bodyBytes, contentType) ==
  [url |-> TranscriptionsURL, contentType |-> contentType, ctx |-> "request",
   body |-> replaceMIMEField(bodyBytes, contentType, "response_format", <<"srt">>)]

\* (mutant) Translate rewrites the format like the SRT request does
TranslateRequest_Rewritten(bodyBytes, contentType) ==
  [url |-> TranslationsURL, contentType |-> contentType, ctx |-> "request",
   body |-> replaceMIMEField(bodyBytes, contentType, "response_format", <<"srt">>)]

\* Translate's request: r.Body streamed with the client's Content-Type, bound
\* to r.Context()
TranslateRequest(bodyBytes, contentType) ==
  [url |-> TranslationsURL, contentType |-> contentType, ctx |-> "request",
   body |-> bodyBytes]

\* the request's context has been cancelled
Cancelled == cancelledAt # "none"

\* client.Do(request): the request is handed to the transport, which sends
\* it unless its context is already cancelled
Do(request, cancelled) ==
  LET Returned == IF pc = "start" THEN {} ELSE {Len(calls)}
      sent == ~(cancelled /\ request.ctx = "request")
  IN  /\ calls' = Append(calls, [url |-> request.url,
                                  contentType |-> request.contentType,
                                  ctx |-> request.ctx, body |-> request.body,
                                  sent |-> sent])
      /\ inflight' = (inflight \ Returned) \cup
                        (IF sent THEN {Len(calls) + 1} ELSE {})

\* what client.Do may return for the last call: a call whose context is
\* cancelled ends in an error, at the latest while its body is read
Returns(ans) ==
  LET call == calls[Len(calls)]
  IN  /\ (call.ctx = "request" /\ Cancelled)
           => IF call.sent THEN ans.kind = "err" \/ ans.readErr ELSE ans = DoError

\* the handler goes on without another call: the last call has returned
NoCall == /\ calls' = calls
          /\ inflight' = inflight \ {Len(calls)}

\* (mutant) the secondary status is not looked at
SecondaryOK_IgnoreStatus(ans) == ans.kind = "http"

\* srtErr == nil && srtResp.StatusCode == http.StatusOK
SecondaryOK(ans) == ans.kind = "http" /\ ans.status = StatusOK

\* the segments the secondary call contributes
Segments(ans) == IF SecondaryOK(ans) THEN parseSRT(BytesOf(ans.body)) ELSE <<>>

\* (mutant) an unreachable backend is reported as an internal error
backendUnavailable_Internal(msg) == httpError(msg, StatusInternalServerError)

\* http.Error(w, `{"error": "... backend unavailable"}`, http.StatusBadGateway)
backendUnavailable(msg) == httpError(msg, StatusBadGateway)

\* the response a handler forwards from the backend as it is
Forward(ans) == [status |-> ans.status, ctype |-> ans.ctype, body |-> ans.body]

Respond(r) == /\ resp' = r
              /\ writes' = writes + 1
              /\ pc' = "done"

\* ------------------------------------------------------------- Transcribe
\* Transcribe up to the primary client.Do.  A body over the cap makes
\* io.ReadAll fail.  (http.NewRequestWithContext cannot fail here: the method
\* is a constant and the backend URL is taken to be well-formed.)
TranscribeStart ==
  /\ pc = "start" /\ req.handler = "Transcribe"
  /\ IF ~MethodAllowed(req.method)
       THEN /\ Respond(httpError("method not allowed", StatusMethodNotAllowed))
            /\ UNCHANGED <<calls, inflight>>
     ELSE IF req.oversize
       THEN /\ Respond(httpError("failed to read request body", StatusBadRequest))
            /\ UNCHANGED <<calls, inflight>>
     ELSE /\ Do(PrimaryRequest(req.body, req.contentType), Cancelled)
          /\ pc' = "primary"
          /\ UNCHANGED <<resp, writes>>
  /\ UNCHANGED <<req, priAns, secAns, panicked, cancelledAt, aside>>

\* Transcribe from the primary call's return up to the secondary client.Do.
\* gone: the client disconnects after the primary response has been read and
\* before the secondary call is issued.
TranscribeOnPrimary(ans, gone) ==
  /\ pc = "primary"
  /\ priAns' = ans
  /\ Returns(ans)
  /\ LET json == isJSON(extractMultipartField(req.body, req.contentType,
                                              "response_format"))
         second == /\ ans.kind # "err" /\ ~ForwardAsIs(json, ans.status)
                   /\ ~ans.readErr /\ ~Unmarshal(ans.body).err
     IN  /\ gone => (second /\ ~Cancelled)
         /\ cancelledAt' = IF gone THEN "between" ELSE cancelledAt
         /\ IF ans.kind = "err"
              THEN /\ Respond(backendUnavailable("transcription backend unavailable"))
                   /\ NoCall
            ELSE IF ForwardAsIs(json, ans.status)
              THEN /\ Respond(Forward(ans))
                   /\ NoCall
            ELSE IF ans.readErr
              THEN /\ Respond(httpError("failed to read backend response",
                                        StatusInternalServerError))
                   /\ NoCall
            ELSE IF Unmarshal(ans.body).err
              THEN /\ Respond([status |-> ans.status, ctype |-> "application/json",
                               body |-> ans.body])
                   /\ NoCall
            ELSE /\ Do(SecondaryRequest(req.body, req.contentType), Cancelled \/ gone)
                 /\ pc' = "secondary"
                 /\ UNCHANGED <<resp, writes>>
  /\ UNCHANGED <<req, secAns, panicked, aside>>

\* Transcribe from the secondary call's return to the end
TranscribeOnSecondary(ans) ==
  /\ pc = "secondary"
  /\ secAns' = ans
  /\ Returns(ans)
  /\ LET jsonResp == Unmarshal(priAns.body)
         segments == Segments(ans)
     IN  IF Len(segments) > 0 /\ jsonResp.isNil
           THEN \* assignment to an entry of a nil map
                /\ panicked' = TRUE
                /\ pc' = "done"
                /\ UNCHANGED <<resp, writes>>
         ELSE /\ Respond([status |-> StatusOK, ctype |-> "application/json",
                          body |-> Marshal(jsonResp.isNil,
                                     IF Len(segments) > 0
                                     THEN SetKey(jsonResp.m, "segments", segments)
                                     ELSE jsonResp.m)])
              /\ UNCHANGED panicked
  /\ NoCall
  /\ UNCHANGED <<req, priAns, cancelledAt, aside>>

\* -------------------------------------------------------------- Translate
\* Translate up to client.Do: the body is streamed to the backend
TranslateStart ==
  /\ pc = "start" /\ req.handler = "Translate"
  /\ IF ~MethodAllowed(req.method)
       THEN /\ Respond(httpError("method not allowed", StatusMethodNotAllowed))
            /\ UNCHANGED <<calls, inflight>>
     ELSE /\ Do(TranslateRequest(req.body, req.contentType), Cancelled)
          /\ pc' = "translate"
          /\ UNCHANGED <<resp, writes>>
  /\ UNCHANGED <<req, priAns, secAns, panicked, cancelledAt, aside>>

\* Translate from client.Do's return to the end.  A body over the cap makes
\* the streamed read fail, so the call cannot end in a 200.
TranslateOnAnswer(ans) ==
  /\ pc = "translate"
  /\ req.oversize => (ans.kind = "err" \/ ans.status # StatusOK)
  /\ priAns' = ans
  /\ Returns(ans)
  /\ IF ans.kind = "err"
       THEN Respond(backendUnavailable("translation backend unavailable"))
       ELSE Respond(Forward(ans))
  /\ NoCall
  /\ UNCHANGED <<req, secAns, panicked, cancelledAt, aside>>

\* The client goes away while its request is being served: r.Context() is
\* cancelled.
Disconnect ==
  /\ pc \in {"start", "primary", "secondary", "translate"}
  /\ cancelledAt = "none"
  /\ cancelledAt' = pc
  /\ UNCHANGED <<req, pc, calls, priAns, secAns, resp, writes, panicked,
                 inflight, aside>>

Next ==
  \/ TranscribeStart
  \/ \E ans \in PrimaryAnswers, gone \in BOOLEAN : TranscribeOnPrimary(ans, gone)
  \/ \E ans \in SecondaryAnswers : TranscribeOnSecondary(ans)
  \/ TranslateStart
  \/ \E ans \in PrimaryAnswers : TranslateOnAnswer(ans)
  \/ Disconnect

Spec == Init /\ [][Next]_vars


\* ------------------------------------------------- the helpers on their own
\* The variables of the handlers, which the specifications below leave alone
handler == <<req, pc, calls, priAns, secAns, resp, writes, panicked,
             cancelledAt, inflight>>

\* no request is being served
NoRequest ==
  /\ req = Request("Transcribe", "POST", FALSE, "B1", "FNwav", <<>>, "none", FALSE)
  /\ pc = "off"
  /\ calls = <<>>
  /\ priAns = NoAnswer
  /\ secAns = NoAnswer
  /\ resp = NoResponse
  /\ writes = 0
  /\ panicked = FALSE
  /\ cancelledAt = "none"
  /\ inflight = {}

\* the values replaceMIMEField is asked to write
NewValues == {<<"srt">>, <<"json">>, <<"verbose_json">>}

\* replaceMIMEField and extractMultipartField on the bodies a client can
\* build, in both part orders, with and without the field: first
\* out = replaceMIMEField(body, contentType, "response_format", value), then
\* got = extractMultipartField(out, contentType, "response_format").
InitField ==
  /\ NoRequest
  /\ proxy = New(<<"http://backend", "/">>)
  /\ conc = <<>>
  /\ app = Off /\ lim = Off /\ wat = Off
  /\ \E b \in Boundaries, fn \in FileNames,
        audio \in SeqsUpTo(AudioTokens, MaxFieldAudio),
        fmt \in Formats \cup {"none"}, ff \in BOOLEAN, v \in NewValues :
        fx = [op |-> "field", step |-> "input",
              body |-> buildMultipartBody(b, fn, audio, fmt, ff),
              contentType |-> FormDataContentType(b), value |-> v,
              out |-> <<>>, got |-> <<>>]

FieldReplace ==
  /\ fx.op = "field" /\ fx.step = "input"
  /\ fx' = [fx EXCEPT !.step = "replaced",
                      !.out = replaceMIMEField(fx.body, fx.contentType,
                                               "response_format", fx.value)]
  /\ UNCHANGED <<handler, proxy, conc, app, lim, wat>>

FieldExtract ==
  /\ fx.op = "field" /\ fx.step = "replaced"
  /\ fx' = [fx EXCEPT !.step = "extracted",
                      !.got = extractMultipartField(fx.out, fx.contentType,
                                                    "response_format")]
  /\ UNCHANGED <<handler, proxy, conc, app, lim, wat>>

NextField == FieldReplace \/ FieldExtract

SpecField == InitField /\ [][NextField]_vars

\* parseSRT on documents of up to MaxDocBlocks blocks of every kind, with
\* either line end, with and without a final line end; one of them is "".
InitSRT ==
  /\ NoRequest
  /\ proxy = New(<<"http://backend", "/">>)
  /\ conc = <<>>
  /\ app = Off /\ lim = Off /\ wat = Off
  /\ \E kinds \in SeqsUpTo(BlockKinds, MaxDocBlocks), eol \in LineEnds,
        final \in BOOLEAN :
        fx = [op |-> "srt", step |-> "input", kinds |-> kinds, eol |-> eol,
              srt |-> DocBytes(kinds, eol)
                        \o (IF final /\ kinds # <<>> THEN eol ELSE <<>>),
              out |-> <<>>]

ParseSRT ==
  /\ fx.op = "srt" /\ fx.step = "input"
  /\ fx' = [fx EXCEPT !.step = "parsed", !.out = parseSRT(fx.srt)]
  /\ UNCHANGED <<handler, proxy, conc, app, lim, wat>>

NextSRT == ParseSRT

SpecSRT == InitSRT /\ [][NextSRT]_vars


\* ------------------------------------------------------ Health on its own
\* The 1 KB that Health reads of a response body before closing it, and the
\* sizes of the bodies a backend sends, in units of 512 bytes.
DrainCap == 2
BodySizes == {0, 1, 3}
HealthStatuses == {200, 404, 503}

\* (mutant) a backend answering 4xx or 5xx counts as down
HealthFails_OnErrorStatus(ans) == ans.kind = "err" \/ ans.status >= 400

\* Health returns an error exactly when healthClient.Get does
HealthFails(ans) == ans.kind = "err"

\* what healthClient.Get may give: an error, or a response with an open body
HealthAnswers ==
  {DoError} \cup {[Http(st, TextBody(<<>>), FALSE) EXCEPT !.isSRT = FALSE]
                     : st \in HealthStatuses}

\* a response body as the transport holds it
OpenBody(size) == [size |-> size, read |-> 0, closed |-> FALSE]

\* io.Copy(io.Discard, io.LimitReader(resp.Body, 1<<10))
Drain(b) == [b EXCEPT !.read = IF b.size < DrainCap THEN b.size ELSE DrainCap]

\* (mutant) Health returns without closing the body
CloseBody_Leak(b) == b

\* resp.Body.Close()
CloseBody(b) == [b EXCEPT !.closed = TRUE]

\* fx.log: the Health calls that have returned, with what Get gave and
\* whether Health returned an error; fx.bodies: every body Get has opened.
InitHealth ==
  /\ NoRequest
  /\ proxy \in {New(u) : u \in BackendURLs}
  /\ conc = <<>>
  /\ app = Off /\ lim = Off /\ wat = Off
  /\ fx = [op |-> "health", pc |-> "idle", ans |-> NoAnswer, url |-> <<>>,
           log |-> <<>>, bodies |-> <<>>]

\* healthClient.Get(p.backendURL + "/v1/models")
HealthGet(ans, size) ==
  /\ fx.op = "health" /\ fx.pc = "idle" /\ Len(fx.log) < MaxHealthCalls
  /\ fx' = IF ans.kind = "err"
             THEN [fx EXCEPT !.ans = ans,
                             !.url = proxy.backendURL \o <<"/v1/models">>,
                             !.log = Append(@, [status |-> 0,
                                                err |-> HealthFails(ans)])]
           ELSE [fx EXCEPT !.ans = ans, !.pc = "drain",
                           !.url = proxy.backendURL \o <<"/v1/models">>,
                           !.bodies = Append(@, OpenBody(size))]
  /\ UNCHANGED <<handler, proxy, conc, app, lim, wat>>

HealthDrain ==
  /\ fx.op = "health" /\ fx.pc = "drain"
  /\ fx' = [fx EXCEPT !.pc = "close",
                      !.bodies[Len(fx.bodies)] = Drain(@)]
  /\ UNCHANGED <<handler, proxy, conc, app, lim, wat>>

HealthClose ==
  /\ fx.op = "health" /\ fx.pc = "close"
  /\ fx' = [fx EXCEPT !.pc = "idle",
                      !.bodies[Len(fx.bodies)] = CloseBody(@),
                      !.log = Append(@, [status |-> fx.ans.status,
                                         err |-> HealthFails(fx.ans)])]
  /\ UNCHANGED <<handler, proxy, conc, app, lim, wat>>

NextHealth ==
  \/ \E ans \in HealthAnswers, size \in BodySizes : HealthGet(ans, size)
  \/ HealthDrain
  \/ HealthClose

SpecHealth == InitHealth /\ [][NextHealth]_vars


\* ------------------------------------------------------ concurrent requests
\* net/http runs each handler call in a goroutine of its own, all on the one
\* Proxy.  conc[c] is the request of client c as its handler call sees it:
\* the local variables of that call.
Clients == {"c1", "c2"}

HealthCheck == Request("Health", "GET", FALSE, "B1", "FNwav", <<>>, "none", FALSE)

SharedRequests ==
  {Request("Transcribe", "POST", FALSE, "B1", "FNwav", <<"a">>, fmt, FALSE) :
      fmt \in {"json", "text"}}
    \cup {Request("Translate", m, FALSE, "B1", "FNwav", <<"a">>, "json", FALSE) :
            m \in Methods}
    \cup {HealthCheck}

SharedPrimaryAnswers ==
  {DoError, Http(StatusOK, ObjectBody(PlainObj), FALSE),
   Http(StatusOK, NullBody, FALSE), Http(StatusOK, TextBody(<<"w">>), FALSE),
   Http(StatusServiceUnavailable, ObjectBody(ErrObj), FALSE)}

SharedSecondaryAnswers ==
  {DoError, SrtAnswer(StatusOK, <<"ok">>, <<"LF">>, FALSE),
   SrtAnswer(StatusOK, <<>>, <<"LF">>, FALSE)}

Arrived(r) ==
  [req |-> r, pc |-> "start", calls |-> <<>>, priAns |-> NoAnswer,
   secAns |-> NoAnswer, resp |-> NoResponse, writes |-> 0, panicked |-> FALSE,
   healthErr |-> FALSE]

\* http.Error / w.Write: the call's one response
Hand(q, r) == [q EXCEPT !.resp = r, !.writes = @ + 1, !.pc = "done"]

\* client.Do of a request to fmt.Sprintf("%s<path>", p.backendURL)
Call(p, q, request, next) ==
  [q EXCEPT !.calls = Append(@, [base |-> p.backendURL, url |-> request.url,
                                 contentType |-> request.contentType,
                                 body |-> request.body]),
            !.pc = next]

\* healthClient.Get(p.backendURL + "/v1/models")
HealthRequest == [url |-> "/v1/models", contentType |-> <<>>, body |-> <<>>]

\* a handler call up to its first backend call
ServeStart(p, q) ==
  IF q.req.handler = "Health" THEN Call(p, q, HealthRequest, "health")
  ELSE IF ~MethodAllowed(q.req.method)
    THEN Hand(q, httpError("method not allowed", StatusMethodNotAllowed))
  ELSE IF q.req.handler = "Translate"
    THEN Call(p, q, TranslateRequest(q.req.body, q.req.contentType), "translate")
  ELSE IF q.req.oversize
    THEN Hand(q, httpError("failed to read request body", StatusBadRequest))
  ELSE Call(p, q, PrimaryRequest(q.req.body, q.req.contentType), "primary")

\* Transcribe from the primary call's return on
ServePrimary(p, q, ans) ==
  LET json == isJSON(extractMultipartField(q.req.body, q.req.contentType,
                                           "response_format"))
      q1   == [q EXCEPT !.priAns = ans]
  IN  IF ans.kind = "err"
        THEN Hand(q1, backendUnavailable("transcription backend unavailable"))
      ELSE IF ForwardAsIs(json, ans.status) THEN Hand(q1, Forward(ans))
      ELSE IF ans.readErr
        THEN Hand(q1, httpError("failed to read backend response",
                                StatusInternalServerError))
      ELSE IF Unmarshal(ans.body).err
        THEN Hand(q1, [status |-> ans.status, ctype |-> "application/json",
                       body |-> ans.body])
      ELSE Call(p, q1, SecondaryRequest(q.req.body, q.req.contentType), "secondary")

\* Transcribe from the secondary call's return on
ServeSecondary(q, ans) ==
  LET jsonResp == Unmarshal(q.priAns.body)
      segments == Segments(ans)
      q1       == [q EXCEPT !.secAns = ans]
  IN  IF Len(segments) > 0 /\ jsonResp.isNil
        THEN [q1 EXCEPT !.panicked = TRUE, !.pc = "done"]
      ELSE Hand(q1, [status |-> StatusOK, ctype |-> "application/json",
                     body |-> Marshal(jsonResp.isNil,
                                IF Len(segments) > 0
                                THEN SetKey(jsonResp.m, "segments", segments)
                                ELSE jsonResp.m)])

\* Translate and Health from their call's return on
ServeTranslate(q, ans) ==
  IF ans.kind = "err"
    THEN Hand([q EXCEPT !.priAns = ans],
              backendUnavailable("translation backend unavailable"))
  ELSE Hand([q EXCEPT !.priAns = ans], Forward(ans))

ServeHealth(q, ans) ==
  [q EXCEPT !.priAns = ans, !.healthErr = HealthFails(ans), !.pc = "done"]

\* (mutant) Transcribe keeps the endpoint it computed in the Proxy
ProxyAfter_CachedURL(p, q) ==
  IF q.req.handler = "Transcribe"
  THEN [p EXCEPT !.backendURL = @ \o <<TranscriptionsURL>>] ELSE p

\* The Proxy after a step of a handler call: the handlers and Health only
\* read p.backendURL, p.client, p.healthClient and p.logger.
ProxyAfter(p, q) == p

InitShared ==
  /\ NoRequest
  /\ fx = FxOff
  /\ app = Off /\ lim = Off /\ wat = Off
  /\ proxy \in {New(u) : u \in BackendURLs}
  /\ conc \in [Clients -> {Arrived(r) : r \in SharedRequests}]

SharedStart(c) ==
  /\ conc[c].pc = "start"
  /\ conc' = [conc EXCEPT ![c] = ServeStart(proxy, conc[c])]
  /\ proxy' = ProxyAfter(proxy, conc[c])
  /\ UNCHANGED <<handler, fx, app, lim, wat>>

SharedOnPrimary(c, ans) ==
  /\ conc[c].pc = "primary"
  /\ conc' = [conc EXCEPT ![c] = ServePrimary(proxy, conc[c], ans)]
  /\ proxy' = ProxyAfter(proxy, conc[c])
  /\ UNCHANGED <<handler, fx, app, lim, wat>>

SharedOnSecondary(c, ans) ==
  /\ conc[c].pc = "secondary"
  /\ conc' = [conc EXCEPT ![c] = ServeSecondary(conc[c], ans)]
  /\ proxy' = ProxyAfter(proxy, conc[c])
  /\ UNCHANGED <<handler, fx, app, lim, wat>>

SharedOnTranslate(c, ans) ==
  /\ conc[c].pc = "translate"
  /\ conc' = [conc EXCEPT ![c] = ServeTranslate(conc[c], ans)]
  /\ proxy' = ProxyAfter(proxy, conc[c])
  /\ UNCHANGED <<handler, fx, app, lim, wat>>

SharedOnHealth(c, ans) ==
  /\ conc[c].pc = "health"
  /\ conc' = [conc EXCEPT ![c] = ServeHealth(conc[c], ans)]
  /\ proxy' = ProxyAfter(proxy, conc[c])
  /\ UNCHANGED <<handler, fx, app, lim, wat>>

NextShared ==
  \E c \in Clients :
    \/ SharedStart(c)
    \/ \E ans \in SharedPrimaryAnswers : SharedOnPrimary(c, ans)
    \/ \E ans \in SharedSecondaryAnswers : SharedOnSecondary(c, ans)
    \/ \E ans \in SharedPrimaryAnswers : SharedOnTranslate(c, ans)
    \/ \E ans \in SharedPrimaryAnswers : SharedOnHealth(c, ans)

SpecShared == InitShared /\ [][NextShared]_vars


\* ------------------------------------------------------- the rate limiter
\* internal/ratelimit.  Time is counted in ticks; a window is a number of
\* ticks.  A remote address is <<host, port>>, or <<host>> when it has no port.
Rates == {0, 1, 2}
Windows == {1, 2}
Hosts == {"ip1", "ip2", "ip3"}
AllowLists == {{}, {"ip3"}}
RemoteAddrs == {<<"ip1", "p1">>, <<"ip1", "p2">>, <<"ip1">>, <<"ip2", "p1">>,
                <<"ip3", "p1">>}

\* ratelimit.New(rate, window, allowList)
NewLimiter(rate, window, allowList) ==
  [visitors |-> [h \in {} |-> 0], rate |-> rate, window |-> window,
   allowList |-> allowList, enabled |-> rate > 0]

\* net.SplitHostPort(ip), falling back to ip itself
HostOf(addr) == addr[1]

\* isAllowed: the allow list (exact entries; the model has no CIDR entries)
isAllowed(l, host) == host \in l.allowList

\* (mutant) a new window starts with all rate tokens left
FreshVisitor_FullBucket(rate, now) == [tokens |-> rate, lastReset |-> now]

\* &visitor{tokens: l.rate - 1, lastReset: now}
FreshVisitor(rate, now) == [tokens |-> rate - 1, lastReset |-> now]

\* Allow(ip) at time now: the result and the limiter after the call
Allow(l, addr, now) ==
  LET host == HostOf(addr)
  IN  IF ~l.enabled \/ isAllowed(l, host) THEN [ok |-> TRUE, l |-> l]
      ELSE IF \/ host \notin DOMAIN l.visitors
              \/ now - l.visitors[host].lastReset >= l.window
        THEN [ok |-> TRUE,
              l  |-> [l EXCEPT !.visitors =
                        [h \in DOMAIN l.visitors \cup {host} |->
                           IF h = host THEN FreshVisitor(l.rate, now)
                           ELSE l.visitors[h]]]]
      ELSE IF l.visitors[host].tokens > 0
        THEN [ok |-> TRUE,
              l  |-> [l EXCEPT !.visitors[host].tokens = @ - 1]]
      ELSE [ok |-> FALSE, l |-> l]

\* (mutant) Cleanup forgets every visitor
Cutoff_Everything(now, window) == now + 1

\* time.Now().Add(-l.window * 2)
Cutoff(now, window) == now - window * 2

\* Cleanup at time now
Cleanup(l, now) ==
  [l EXCEPT !.visitors =
     [h \in {g \in DOMAIN l.visitors :
                ~(l.visitors[g].lastReset < Cutoff(now, l.window))}
        |-> l.visitors[h]]]

\* lim.l is the limiter of the server, on which Cleanup runs; lim.plain is a
\* limiter given the same Allow calls and no Cleanup.  lim.seen[h] is the
\* history of host h as a client sees it: when its present window began
\* and how many requests (allowed or not) it has made in it, counted up to
\* rate + 1.  lim.last is the last Allow call with its results.
NoAllow == [host |-> "", ok |-> TRUE, plainOk |-> TRUE, fresh |-> FALSE, nth |-> 0]

InitLimiter ==
  /\ NoRequest
  /\ fx = FxOff /\ conc = <<>> /\ proxy = New(<<"http://backend">>)
  /\ app = Off /\ wat = Off
  /\ \E rate \in Rates, window \in Windows, allowList \in AllowLists :
        lim = [on |-> TRUE, now |-> 0,
               l |-> NewLimiter(rate, window, allowList),
               plain |-> NewLimiter(rate, window, allowList),
               seen |-> [h \in {} |-> 0], last |-> NoAllow, cleanups |-> 0]

\* a request arrives from addr: Middleware calls Allow(r.RemoteAddr)
LimiterAllow(addr) ==
  LET host  == HostOf(addr)
      a     == Allow(lim.l, addr, lim.now)
      b     == Allow(lim.plain, addr, lim.now)
      fresh == \/ host \notin DOMAIN lim.seen
               \/ lim.now - lim.seen[host].first >= lim.l.window
      nth   == IF fresh THEN 1
               ELSE IF lim.seen[host].n > lim.l.rate THEN lim.seen[host].n
               ELSE lim.seen[host].n + 1
  IN  /\ lim.on
      /\ lim' = [lim EXCEPT
                   !.l = a.l, !.plain = b.l,
                   !.seen = [h \in DOMAIN lim.seen \cup {host} |->
                               IF h = host
                               THEN [first |-> IF fresh THEN lim.now
                                               ELSE lim.seen[host].first,
                                     n |-> nth]
                               ELSE lim.seen[h]],
                   !.last = [host |-> host, ok |-> a.ok, plainOk |-> b.ok,
                             fresh |-> fresh, nth |-> nth]]
      /\ UNCHANGED <<handler, fx, proxy, conc, app, wat>>

\* the janitor goroutine of main calls limiter.Cleanup()
LimiterCleanup ==
  /\ lim.on
  /\ lim' = [lim EXCEPT !.l = Cleanup(lim.l, lim.now),
                        !.cleanups = IF Cleanup(lim.l, lim.now) = lim.l
                                     THEN @ ELSE 1]
  /\ UNCHANGED <<handler, fx, proxy, conc, app, wat>>

LimiterTick ==
  /\ lim.on /\ lim.now < MaxTime
  /\ lim' = [lim EXCEPT !.now = @ + 1]
  /\ UNCHANGED <<handler, fx, proxy, conc, app, wat>>

NextLimiter ==
  \/ \E addr \in RemoteAddrs : LimiterAllow(addr)
  \/ LimiterCleanup
  \/ LimiterTick

SpecLimiter == InitLimiter /\ [][NextLimiter]_vars


\* ------------------------------------------------------ the folder watcher
\* internal/watcher.  Time is counted in seconds.  A path is <<name, ext>>.
audioExtensions == {".wav", ".mp3", ".mp4", ".m4a", ".ogg", ".flac", ".webm",
                    ".opus", ".wma"}
WatchedPaths == {<<"a", ".wav">>, <<"b", ".MP3">>, <<"n", ".txt">>}
FsOps == {"Create", "Write", "Remove"}

\* strings.ToLower(filepath.Ext(event.Name))
LowerExt(path) == IF path[2] = ".MP3" THEN ".mp3" ELSE path[2]

\* audioExtensions[ext]
IsAudio(path) == LowerExt(path) \in audioExtensions

\* time.NewTicker(2 * time.Second) and the 3 seconds a file must be quiet
TickerPeriod == 2
QuietSeconds == 3

\* the paths of pending that a tick at time now hands on or drops
Stable(pending, now) ==
  {p \in DOMAIN pending : ~(now - pending[p] < QuietSeconds)}

\* wat.events: what fsw.Events offers the loop (at most one event, the
\* channel has no buffer); wat.tick: ticker.C holds a tick; wat.stopped:
\* Stop has been called (stopCh and fsw.Events are closed); wat.running: the
\* loop goroutine has not returned.  wat.heard[p] is when the loop last
\* received a Create or Write for p; wat.handed is the calls of processFile.
InitWatcher ==
  /\ NoRequest
  /\ fx = FxOff /\ conc = <<>> /\ proxy = New(<<"http://backend">>)
  /\ app = Off /\ lim = Off
  /\ wat = [on |-> TRUE, now |-> 0, events |-> <<>>, tick |-> FALSE,
            stopped |-> FALSE, running |-> TRUE,
            pending |-> [p \in {} |-> 0], processed |-> {},
            heard |-> [p \in {} |-> 0], handed |-> {}]

\* the file system reports an operation on a file of the directory
FsEvent(path, op) ==
  /\ wat.on /\ ~wat.stopped /\ wat.events = <<>>
  /\ wat' = [wat EXCEPT !.events = <<[name |-> path, op |-> op]>>]
  /\ UNCHANGED <<handler, fx, proxy, conc, app, lim>>

\* a second passes; the ticker fires every other second into its channel
\* of capacity 1
WatcherClock ==
  /\ wat.on /\ wat.now < MaxTime
  /\ wat' = [wat EXCEPT !.now = @ + 1,
                        !.tick = @ \/ ((wat.now + 1) % TickerPeriod = 0)]
  /\ UNCHANGED <<handler, fx, proxy, conc, app, lim>>

\* loop: case event, ok := <-w.fsw.Events
LoopEvent ==
  /\ wat.on /\ wat.running /\ wat.events # <<>>
  /\ LET event == Head(wat.events)
         taken == event.op \in {"Create", "Write"} /\ IsAudio(event.name)
         put(f) == [p \in DOMAIN f \cup {event.name} |->
                      IF p = event.name THEN wat.now ELSE f[p]]
     IN  wat' = [wat EXCEPT !.events = <<>>,
                            !.pending = IF taken THEN put(@) ELSE @,
                            !.heard = IF event.op \in {"Create", "Write"}
                                      THEN put(@) ELSE @]
  /\ UNCHANGED <<handler, fx, proxy, conc, app, lim>>

\* loop: case <-ticker.C.  select takes any case that is ready, so this
\* one can be taken when stopCh is closed as well.
LoopTick ==
  /\ wat.on /\ wat.running /\ wat.tick
  /\ LET stable == Stable(wat.pending, wat.now)
         fresh  == stable \ wat.processed
     IN  wat' = [wat EXCEPT
                   !.tick = FALSE,
                   !.pending = [p \in DOMAIN wat.pending \ stable |->
                                  wat.pending[p]],
                   !.processed = @ \cup fresh,
                   !.handed = @ \cup {[path |-> p, at |-> wat.now,
                                        heard |-> wat.heard[p],
                                        afterStop |-> wat.stopped]
                                         : p \in fresh}]
  /\ UNCHANGED <<handler, fx, proxy, conc, app, lim>>

\* Stop: close(w.stopCh); w.fsw.Close()
Stop ==
  /\ wat.on /\ ~wat.stopped
  /\ wat' = [wat EXCEPT !.stopped = TRUE, !.events = <<>>]
  /\ UNCHANGED <<handler, fx, proxy, conc, app, lim>>

\* loop: case <-w.stopCh, or the closed fsw.Events: return
LoopReturn ==
  /\ wat.on /\ wat.running /\ wat.stopped
  /\ wat' = [wat EXCEPT !.running = FALSE]
  /\ UNCHANGED <<handler, fx, proxy, conc, app, lim>>

NextWatcher ==
  \/ \E path \in WatchedPaths, op \in FsOps : FsEvent(path, op)
  \/ WatcherClock
  \/ LoopEvent
  \/ LoopTick
  \/ Stop
  \/ LoopReturn

SpecWatcher == InitWatcher /\ [][NextWatcher]_vars


\* ------------------------------------------------------------- the server
\* cmd/captainslog/main.go: the settings, the whisperProxy variable, the
\* routes registered on the mux and settings.json.  Of runtimeSettings the
\* model keeps one field for each way PUT /api/settings treats a field.
Fields == {"vault_dir", "auto_save", "prompt", "temperature", "history_limit",
           "condition_on_previous_text", "whisper_url"}

\* the zero value json.Decode leaves in a field whose key is absent; a
\* temperature is in hundredths, a *bool is "nil", "true" or "false"
Zero(f) == CASE f \in {"vault_dir", "prompt", "whisper_url"} -> ""
             [] f = "auto_save" -> FALSE
             [] f \in {"temperature", "history_limit"} -> 0
             [] OTHER -> "nil"

\* the settings main starts with
StartSettings ==
  [vault_dir |-> "/vault", auto_save |-> TRUE, prompt |-> "names: Picard",
   temperature |-> 20, history_limit |-> 5,
   condition_on_previous_text |-> "nil", whisper_url |-> "http://old"]

\* request bodies of PUT /api/settings: JSON objects, as the keys they hold
PartialUpdate == [vault_dir |-> "/notes"]
SwapBackend == [whisper_url |-> "http://new/"]
FullUpdate ==
  [vault_dir |-> "/notes", auto_save |-> FALSE, prompt |-> "",
   temperature |-> 0, history_limit |-> 10,
   condition_on_previous_text |-> "false", whisper_url |-> "http://new/"]
UpdateBodies == {PartialUpdate, SwapBackend, FullUpdate}

\* json.NewDecoder(r.Body).Decode(&update) into a zero runtimeSettings
Decode(body) == [f \in Fields |-> IF f \in DOMAIN body THEN body[f] ELSE Zero(f)]

\* the assignments under settings.mu.Lock()
Merge(old, update) ==
  [f \in Fields |->
     CASE f \in {"vault_dir", "whisper_url"} ->
            IF update[f] # "" THEN update[f] ELSE old[f]
       [] f = "history_limit" -> IF update[f] > 0 THEN update[f] ELSE old[f]
       [] f = "condition_on_previous_text" ->
            IF update[f] # "nil" THEN update[f] ELSE old[f]
       [] OTHER -> update[f]]

\* a backend URL as proxy.New reads it
URLBytes(u) == IF u = "http://new/" THEN <<"http://new", "/">> ELSE <<u>>

ServerGoroutines == {"h1", "h2"}
Routes == {"/api/settings", "/healthz", "/v1/audio/transcriptions",
           "/v1/audio/translations", "/api/config"}
Idle == [route |-> "", pc |-> "idle", body |-> <<>>, before |-> <<>>,
         after |-> <<>>, want |-> <<>>]

\* app.whisperProxy is the variable of main; app.routes is what the mux
\* holds for the two audio routes: whisperProxy.Transcribe and
\* whisperProxy.Translate are method values, bound to the Proxy the variable
\* held when the routes were registered.  app.writer holds settings.mu for
\* writing.  app.persist is the goroutines started to write settings.json.
\* app.sent is the backend requests made, each with the backend it went to
\* and the backend the last answered PUT had set when its request started
\* (<<>>: none, or a PUT was under way).  app.unlocked is the reads of
\* shared variables made without settings.mu.
InitApp ==
  /\ NoRequest
  /\ fx = FxOff /\ conc = <<>> /\ proxy = New(<<"http://old">>)
  /\ lim = Off /\ wat = Off
  /\ app = [on |-> TRUE, settings |-> StartSettings,
            whisperProxy |-> New(<<"http://old">>),
            routes |-> New(<<"http://old">>),
            configFile |-> <<>>, writer |-> "",
            th |-> [h \in ServerGoroutines |-> Idle],
            persist |-> <<>>, sent |-> {}, unlocked |-> {},
            started |-> 0, swapped |-> <<>>]

PutUnderWay == \E h \in ServerGoroutines : app.th[h].route = "/api/settings"

\* the bodies a request to a route is given
BodiesOf(route) == IF route = "/api/settings" THEN UpdateBodies ELSE {<<>>}

\* the server accepts a request and runs its handler in a new goroutine
Accept(h, route, body) ==
  /\ app.on /\ app.th[h].pc = "idle" /\ app.started < MaxRequests
  /\ app' = [app EXCEPT
               !.started = @ + 1,
               !.th[h] = [Idle EXCEPT !.route = route, !.pc = "start",
                                      !.body = body,
                                      !.want = IF PutUnderWay THEN <<>>
                                               ELSE app.swapped]]
  /\ UNCHANGED <<handler, fx, proxy, conc, lim, wat>>

\* PUT /api/settings: settings.mu.Lock()
PutLock(h) ==
  /\ app.on /\ app.th[h].route = "/api/settings" /\ app.th[h].pc = "start"
  /\ app.writer = ""
  /\ app' = [app EXCEPT !.writer = h, !.th[h].pc = "write",
                        !.th[h].before = app.settings]
  /\ UNCHANGED <<handler, fx, proxy, conc, lim, wat>>

\* the assignments to settings and to whisperProxy
PutWrite(h) ==
  /\ app.on /\ app.th[h].pc = "write"
  /\ LET update == Decode(app.th[h].body)
         new    == Merge(app.settings, update)
     IN  app' = [app EXCEPT
                   !.settings = new,
                   !.whisperProxy = IF update["whisper_url"] # ""
                                    THEN New(URLBytes(update["whisper_url"]))
                                    ELSE @,
                   !.th[h].pc = "unlock",
                   !.th[h].after = new]
  /\ UNCHANGED <<handler, fx, proxy, conc, lim, wat>>

\* settings.mu.Unlock() and `go func() { ... }()`
PutUnlock(h) ==
  /\ app.on /\ app.th[h].pc = "unlock"
  /\ app' = [app EXCEPT !.writer = "", !.th[h].pc = "respond",
                        !.persist = Append(@, [pc |-> "start", data |-> <<>>])]
  /\ UNCHANGED <<handler, fx, proxy, conc, lim, wat>>

\* a read of a shared variable made without the lock, by h
Unlocked(h, what) ==
  [by |-> app.th[h].route, what |-> what,
   writing |-> app.writer # "" /\ app.writer # h]

\* logger.Info("settings updated", ..., settings.VaultDir, ...) and the
\* response {"status": "saved"}
PutRespond(h) ==
  /\ app.on /\ app.th[h].pc = "respond"
  /\ app' = [app EXCEPT
               !.unlocked = @ \cup {Unlocked(h, "settings.VaultDir")},
               !.swapped = IF "whisper_url" \in DOMAIN app.th[h].body
                           THEN TrimSlashes(URLBytes(app.th[h].body["whisper_url"]))
                           ELSE @,
               !.th[h] = Idle]
  /\ UNCHANGED <<handler, fx, proxy, conc, lim, wat>>

\* the persist goroutine: MarshalIndent(settings) under settings.mu.RLock()
PersistSnapshot(i) ==
  /\ app.on /\ i \in DOMAIN app.persist /\ app.persist[i].pc = "start"
  /\ app.writer = ""
  /\ app' = [app EXCEPT !.persist[i] = [pc |-> "write", data |-> app.settings]]
  /\ UNCHANGED <<handler, fx, proxy, conc, lim, wat>>

\* the persist goroutine: os.WriteFile(configFile, data, 0600)
PersistWrite(i) ==
  /\ app.on /\ i \in DOMAIN app.persist /\ app.persist[i].pc = "write"
  /\ app' = [app EXCEPT !.persist[i].pc = "done",
                        !.configFile = app.persist[i].data]
  /\ UNCHANGED <<handler, fx, proxy, conc, lim, wat>>

\* the Proxy a request to an audio route runs on
RouteProxy(a) == a.routes

\* /v1/audio/transcriptions and /v1/audio/translations: the handler's call
\* to the backend
ServeAudio(h) ==
  /\ app.on /\ app.th[h].pc = "start"
  /\ app.th[h].route \in {"/v1/audio/transcriptions", "/v1/audio/translations"}
  /\ app' = [app EXCEPT
               !.sent = @ \cup {[route |-> app.th[h].route,
                                  base |-> RouteProxy(app).backendURL,
                                  want |-> app.th[h].want]},
               !.th[h] = Idle]
  /\ UNCHANGED <<handler, fx, proxy, conc, lim, wat>>

\* /healthz: the settings are copied under settings.mu.RLock()
HealthzRead(h) ==
  /\ app.on /\ app.th[h].route = "/healthz" /\ app.th[h].pc = "start"
  /\ app.writer = ""
  /\ app' = [app EXCEPT !.th[h].pc = "probe"]
  /\ UNCHANGED <<handler, fx, proxy, conc, lim, wat>>

\* /healthz: whisperProxy.Health()
HealthzProbe(h) ==
  /\ app.on /\ app.th[h].pc = "probe"
  /\ app' = [app EXCEPT
               !.unlocked = @ \cup {Unlocked(h, "whisperProxy")},
               !.sent = @ \cup {[route |-> "/healthz",
                                  base |-> app.whisperProxy.backendURL,
                                  want |-> app.th[h].want]},
               !.th[h] = Idle]
  /\ UNCHANGED <<handler, fx, proxy, conc, lim, wat>>

\* /api/config: settings.VaultDir and settings.EnableLLM are read
ServeConfig(h) ==
  /\ app.on /\ app.th[h].route = "/api/config" /\ app.th[h].pc = "start"
  /\ app' = [app EXCEPT
               !.unlocked = @ \cup {Unlocked(h, "settings.VaultDir")},
               !.th[h] = Idle]
  /\ UNCHANGED <<handler, fx, proxy, conc, lim, wat>>

NextApp ==
  \/ \E h \in ServerGoroutines, route \in Routes :
        \E body \in BodiesOf(route) : Accept(h, route, body)
  \/ \E h \in ServerGoroutines :
        \/ PutLock(h) \/ PutWrite(h) \/ PutUnlock(h) \/ PutRespond(h)
        \/ ServeAudio(h) \/ HealthzRead(h) \/ HealthzProbe(h)
        \/ ServeConfig(h)
  \/ \E i \in 1..MaxRequests : PersistSnapshot(i) \/ PersistWrite(i)

SpecApp == InitApp /\ [][NextApp]_vars


\* ================================================================= claims
Done == pc = "done"
InTranscribe == req.handler = "Transcribe"
\* the response_format a backend parsing the i-th request it was sent reads
ReceivedFormat(i) ==
  extractMultipartField(calls[i].body, calls[i].contentType, "response_format")
\* the value the client put in the form, as bytes
SentFormat == IF req.fmt = "none" THEN <<>> ELSE <<req.fmt>>
\* a subtitle document all of whose blocks are well-formed, with at least one
ValidDoc(kinds) == kinds # <<>> /\ \A i \in DOMAIN kinds : kinds[i] \in WellFormedKinds
\* the handler got as far as the secondary call and that call has returned
SecondaryReturned == Done /\ InTranscribe /\ secAns.kind # "none"

\* C1: a JSON-format (json or absent) POST to Transcribe whose secondary call
\* is answered 200 with a valid SRT document ends in a response whose
\* segments array is non-empty and has one entry per well-formed block.
C1_SegmentsPerBlock ==
  (/\ SecondaryReturned
   /\ req.fmt \in {"none", "json"}
   /\ secAns.kind = "http" /\ secAns.status = StatusOK /\ ~secAns.readErr
   /\ secAns.isSRT /\ ValidDoc(secAns.blocks))
  => /\ resp.status = StatusOK
     /\ resp.body.kind = "object"
     /\ "segments" \in DOMAIN resp.body.obj
     /\ Len(resp.body.obj.segments) > 0
     /\ Len(resp.body.obj.segments) = WellFormedCount(secAns.blocks)

\* C2: for a Transcribe request whose response_format is text, srt or vtt,
\* every request the backend is sent carries that same format value and the
\* client receives the backend's status and body as they came.
C2_NonJSONPassthrough ==
  (InTranscribe /\ req.fmt \in {"text", "srt", "vtt"})
  => /\ \A i \in DOMAIN calls : ReceivedFormat(i) = <<req.fmt>> /\ calls[i].body = req.body
     /\ (Done /\ priAns.kind = "http")
          => (resp.status = priAns.status /\ resp.body = priAns.body /\ writes = 1)

C2_Witness ==
  /\ Done /\ InTranscribe /\ req.fmt = "srt" /\ req.fieldFirst
  /\ priAns.kind = "http" /\ priAns.status = StatusOK
  /\ priAns.body = ObjectBody(PlainObj)
  /\ resp.body = priAns.body /\ Len(calls) = 1

\* C3: when the primary call returns a status other than 200, whatever the
\* requested format, Transcribe answers with that status and that body and
\* makes no secondary call.
C3_PrimaryErrorPassthrough ==
  (Done /\ InTranscribe /\ priAns.kind = "http" /\ priAns.status # StatusOK)
  => /\ resp.status = priAns.status
     /\ resp.body = priAns.body
     /\ writes = 1
     /\ Len(calls) = 1
     /\ secAns.kind = "none"

C3_Witness ==
  /\ Done /\ InTranscribe /\ req.fmt \in {"none", "json"}
  /\ priAns.kind = "http" /\ priAns.status = StatusServiceUnavailable
  /\ priAns.body = ObjectBody(ErrObj)
  /\ resp.status = StatusServiceUnavailable /\ Len(calls) = 1

C6_VerboseJSONUpgrade ==
  (InTranscribe /\ req.fmt \in {"none", "json"})
  => \A i \in DOMAIN calls : ReceivedFormat(i) = <<"verbose_json">>

\* a part is the response_format form field
IsFormatField(part) ==
  FormName(part.hdr) = "response_format" /\ FileName(part.hdr) = ""

\* C7: the body of the secondary request has the parts of the client's body,
\* each with the same headers and, except for the response_format field, the
\* same payload.
C7_OnlyFieldValueDiffers ==
  (InTranscribe /\ Len(calls) = 2)
  => LET orig == NewReader(req.body, BoundaryParam(req.contentType))
         sent == NewReader(calls[2].body, BoundaryParam(calls[2].contentType))
     IN  /\ Len(sent) = Len(orig)
         /\ \A i \in DOMAIN orig :
              /\ sent[i].hdr = orig[i].hdr
              /\ IsFormatField(orig[i]) \/ sent[i].data = orig[i].data

\* C8: when the client omits response_format the secondary request is the
\* primary request byte for byte, and if the backend answers it 200 with
\* content that is not subtitles the client gets 200 and the primary object.
C8_AbsentFieldDegrades ==
  (InTranscribe /\ req.fmt = "none" /\ Len(calls) = 2)
  => /\ calls[2] = calls[1]
     /\ (Done /\ priAns.body.kind = "object" /\ secAns.kind = "http" /\ ~secAns.isSRT)
          => (resp.status = StatusOK /\ resp.body = priAns.body)

\* C9: when the primary call fails at transport level (connection refused,
\* timeout), Transcribe answers 502 whatever the requested format and makes
\* no secondary call.
C9_BackendUnreachable ==
  (Done /\ InTranscribe /\ priAns.kind = "err")
  => /\ resp.status = 502
     /\ writes = 1
     /\ Len(calls) = 1
     /\ secAns.kind = "none"

C9_Witness ==
  /\ Done /\ InTranscribe /\ priAns.kind = "err"
  /\ req.fmt = "json" /\ resp.status = 502 /\ Len(calls) = 1

\* C10: a request to Transcribe or Translate whose method is not POST is
\* answered 405 by the handler's first step, and the backend is never sent
\* anything for it.
C10_MethodNotAllowed ==
  (req.method # "POST")
  => /\ calls = <<>>
     /\ pc \in {"start", "done"}
     /\ Done => (resp.status = 405 /\ writes = 1)

C10_Witness ==
  /\ Done /\ req.method = "GET" /\ req.handler = "Translate"
  /\ resp.status = 405 /\ calls = <<>>

C12_OversizeIsClientError ==
  (Done /\ req.method = "POST" /\ req.oversize /\ priAns.kind # "http")
  => (resp.status >= 400 /\ resp.status < 500)

\* C13: a JSON-format Transcribe request whose primary call returned 200 and
\* whose body was read ends with exactly one response written, of status 200
\* and Content-Type application/json, for every primary body and every
\* secondary outcome.
C13_AlwaysOneJSONResponse ==
  (/\ Done /\ InTranscribe /\ req.method = "POST"
   /\ isJSON(extractMultipartField(req.body, req.contentType, "response_format"))
   /\ priAns.kind = "http" /\ priAns.status = StatusOK /\ ~priAns.readErr)
  => /\ writes = 1 /\ ~panicked
     /\ resp.status = StatusOK
     /\ resp.ctype = "application/json"

C14_WitnessNone ==
  /\ SecondaryReturned /\ priAns.body = ObjectBody(FullObj)
  /\ secAns.kind = "http" /\ secAns.status = StatusOK /\ Segments(secAns) = <<>>
  /\ resp.body = ObjectBody(FullObj)

C19_BoundToRequestContext ==
  LET failed(ans) == ans.kind # "none" => (ans.kind = "err" \/ ans.readErr)
  IN  /\ \A i \in DOMAIN calls : calls[i].ctx = "request"
      /\ cancelledAt = "start" => \A i \in DOMAIN calls : ~calls[i].sent
      /\ cancelledAt \in {"primary", "between"}
           => \A i \in DOMAIN calls : i >= 2 => ~calls[i].sent
      /\ cancelledAt \in {"primary", "translate"} => failed(priAns)
      /\ cancelledAt \in {"between", "secondary"} => failed(secAns)

\* the client left between the two calls: the secondary call was handed to
\* the client and never sent
C19_Witness ==
  /\ cancelledAt = "between" /\ Done /\ Len(calls) = 2
  /\ calls[1].sent /\ ~calls[2].sent
  /\ secAns = DoError /\ resp.status = StatusOK

\* the parts of a body that a multipart parser takes for the form field
\* response_format
FormatFields(body, contentType) ==
  LET parts == NewReader(body, BoundaryParam(contentType))
  IN  {i \in DOMAIN parts : /\ FormName(parts[i].hdr) = "response_format"
                            /\ FileName(parts[i].hdr) = ""}

\* C15: for every multipart body with a response_format form field, before
\* or after the file part, extractMultipartField of the result of
\* replaceMIMEField(body, "response_format", v) is v.
C15_RoundTrip ==
  (/\ fx.op = "field" /\ fx.step = "extracted"
   /\ FormatFields(fx.body, fx.contentType) # {})
  => fx.got = fx.value

\* C16: for every multipart body without a response_format form field,
\* whatever its file name and payload, replaceMIMEField returns the body as
\* it was.
C16_Identity ==
  (/\ fx.op = "field" /\ fx.step # "input"
   /\ FormatFields(fx.body, fx.contentType) = {})
  => fx.out = fx.body

\* the segments a document of these blocks has: one for each well-formed
\* block, in order, from 0 to 1.5 s, its text lines joined with a space
RECURSIVE ExpectedSegments(_)
ExpectedSegments(kinds) ==
  IF kinds = <<>> THEN <<>>
  ELSE (CASE Head(kinds) = "ok"  -> <<[start |-> 0, end |-> 1500, text |-> <<"w">>]>>
          [] Head(kinds) = "ok2" -> <<[start |-> 0, end |-> 1500,
                                       text |-> <<"w", "SP", "w">>]>>
          [] OTHER               -> <<>>)
       \o ExpectedSegments(Tail(kinds))

\* C17: parseSRT gives one segment for each well-formed block, in document
\* order, and none for a block without an arrow or with fewer than three
\* lines; for the empty string it gives none.
C17_SegmentPerWellFormedBlock ==
  (fx.op = "srt" /\ fx.step = "parsed")
  => fx.out = ExpectedSegments(fx.kinds)

C26_BoundedCalls ==
  (InTranscribe /\ Done)
  => /\ Len(calls) <= 2
     /\ Len(calls) =
          IF req.method # "POST" \/ req.oversize THEN 0
          ELSE IF \/ ~isJSON(extractMultipartField(req.body, req.contentType,
                                                   "response_format"))
                  \/ priAns.kind = "err" \/ priAns.readErr
                  \/ priAns.status # StatusOK
                  \/ priAns.body.kind # "object"
            THEN 1
          ELSE 2

\* C22: whenever Health is not in the middle of a call, every response body
\* it has been given is closed and was read up to its end or up to the cap,
\* whichever comes first.
C22_HealthDrainsAndCloses ==
  (fx.op = "health")
  => \A i \in DOMAIN fx.bodies :
        (i < Len(fx.bodies) \/ fx.pc = "idle")
        => /\ fx.bodies[i].closed
           /\ fx.bodies[i].read = (IF fx.bodies[i].size < DrainCap
                                   THEN fx.bodies[i].size ELSE DrainCap)

\* three calls in a row got a response; one body was longer than the cap
C22_Witness ==
  /\ fx.op = "health" /\ fx.pc = "idle" /\ Len(fx.bodies) = 3
  /\ \E i \in DOMAIN fx.bodies : fx.bodies[i].size > DrainCap
  /\ \A i \in DOMAIN fx.bodies : fx.bodies[i].closed

\* C27: a Health call returns an error exactly when the GET of
\* <base>/v1/models gave no response; any status, 4xx and 5xx included, is ok.
C27_HealthIgnoresStatus ==
  (fx.op = "health")
  => \A i \in DOMAIN fx.log : fx.log[i].err = (fx.log[i].status = 0)

C27_Witness ==
  /\ fx.op = "health"
  /\ \E i \in DOMAIN fx.log : fx.log[i].status = 503 /\ ~fx.log[i].err
  /\ \E i \in DOMAIN fx.log : fx.log[i].status = 0 /\ fx.log[i].err
  /\ fx.url = <<"http://backend", "/v1/models">>

\* C24: with rate N > 0, a request from a host that is not on the allow
\* list is allowed exactly when it is one of the first N requests that host
\* has made since its window began, a window beginning with the host's first
\* request and with its first request made `window` or more after the
\* previous window began; the requests of other hosts do not count.
C24_FirstNPerWindow ==
  (/\ lim.on /\ lim.last.host # "" /\ lim.l.rate > 0
   /\ lim.last.host \notin lim.l.allowList)
  => lim.last.ok = (lim.last.nth <= lim.l.rate)

\* ip1 was denied its third request of a window in which ip2 had also made
\* requests
C24_Witness ==
  /\ lim.on /\ lim.l.rate = 2 /\ lim.l.allowList = {}
  /\ lim.last.host = "ip1" /\ lim.last.nth = 3 /\ ~lim.last.ok
  /\ "ip2" \in DOMAIN lim.seen

\* a window passed and ip1 was allowed again
C24_WitnessReset ==
  /\ lim.on /\ lim.l.rate = 1 /\ lim.last.host = "ip1"
  /\ lim.last.fresh /\ lim.last.ok /\ lim.seen["ip1"].first > 0

\* C29: every Allow call gives the same result on the limiter on which
\* Cleanup is run at arbitrary times as on one on which it never is.
C29_CleanupTransparent ==
  lim.on => lim.last.ok = lim.last.plainOk

\* Cleanup has removed a visitor and that host was later limited again
C29_Witness ==
  /\ lim.on /\ lim.cleanups = 1
  /\ lim.last.host # "" /\ ~lim.last.ok /\ ~lim.last.plainOk
  /\ lim.l.visitors # lim.plain.visitors

\* what C30 says of the files handed on, Stop aside: each path at most
\* once, only audio files, and only after 3 seconds without a Create or
\* Write received for the path
HandedOnceWhenQuiet ==
  wat.on =>
    /\ \A g, h \in wat.handed : g.path = h.path => g = h
    /\ \A h \in wat.handed : /\ LowerExt(h.path) \in audioExtensions
                             /\ h.at - h.heard >= 3

\* C30: each audio path is handed to processFile at most once, only after 3
\* seconds without a Create or Write for it, never for another extension,
\* and never once Stop has been called.
C30_WatcherHandsOnce ==
  wat.on => /\ HandedOnceWhenQuiet
            /\ \A h \in wat.handed : ~h.afterStop

\* C21: once a PUT /api/settings carrying a non-empty whisper_url has been
\* answered, every request to the audio routes and every /healthz probe
\* started afterwards goes to the new backend URL.
C21_SwapReachesEveryRoute ==
  app.on => \A s \in app.sent : s.want = <<>> \/ s.base = s.want

\* C23: PUT /api/settings is a merge: every field whose key is absent from
\* the request body has, after the update, the value it had before it.
C23_AbsentKeysKept ==
  app.on =>
    \A h \in ServerGoroutines :
      \A f \in Fields \ DOMAIN app.th[h].body :
        app.th[h].after = <<>> \/ app.th[h].after[f] = app.th[h].before[f]

\* C25: once every PUT /api/settings has been answered and every persist
\* goroutine has finished, settings.json holds the settings in memory.
C25_FileHoldsFinalSettings ==
  ( /\ app.on
    /\ Len(app.persist) > 0
    /\ \A h \in ServerGoroutines : app.th[h].pc = "idle"
    /\ \A i \in DOMAIN app.persist : app.persist[i].pc = "done" )
  => app.configFile = app.settings

\* C28: every read a handler makes of a settings field or of whisperProxy is
\* made holding settings.mu, so none is made while a PUT is writing.
C28_AllAccessUnderLock ==
  app.on => app.unlocked = {}

====
